---- MODULE Spec2Model ----
(***************************************************************************)
(* State-machine model of rust-zerotier-core/src/certificate.rs: the       *)
(* certificate data model, its marshalling to and from the engine-facing   *)
(* (C API) representation, and the wrappers around the engine's            *)
(* encode / decode / sign / verify / newCSR operations.                    *)
(*                                                                         *)
(* Conventions: a Rust String or Vec<u8> is a sequence of bytes (1-based), *)
(* a fixed C buffer [c_char; 128] is a function on 0..127 (the source's    *)
(* indices), Option<T> is <<>> (None) or <<v>> (Some(v)), a raw pointer to *)
(* an array is the array itself or NullPtr.                                *)
(***************************************************************************)
EXTENDS Integers, Sequences, FiniteSets, TLC

----------------------------------------------------------------------------
(* Bounds of the model (not program constants).                            *)

\* byte values used in test data are 0..MaxByte
MaxByte == 2
\* longest string put into a Name field or update URL
MaxStrLen == 128
\* longest byte slice handed to CertificateSerialNo::from(&[u8])
MaxSliceLen == 50
\* engine result codes outside the ten known ones, on each side of them
ExtraCodes == 1
\* the longest text a serial number is parsed from
MaxHexLen == 100
\* the 48-byte arrays written as text: offsets 0..MaxOffset of each pattern
MaxOffset == 30
\* how far past the 128-byte buffers a size the engine reports may lie
MaxOver == 2

----------------------------------------------------------------------------
(* Program constants.                                                      *)

\* pub struct CertificateSerialNo(pub [u8; 48])
SerialNoSize == 48
\* cs: &mut [c_char; 128]
CStrBufSize == 128
\* if l > 126 { l = 126; }
CStrClamp == 126
\* cert.resize(16384, 0); let mut cert_size: c_int = 16384;
BufSize == 16384
\* ztcore::ZT_CERTIFICATE_MAX_STRING_LENGTH (re-exported at line 16)
CERTIFICATE_MAX_STRING_LENGTH == 127

TwoPow16 == 2 ^ 16

\* A raw pointer: null, or leading to the value at, which lives in memory
\* owned by Rust data ("own") or inside the certificate object the engine's
\* decode allocated ("cert_object", released by ZT_Certificate_delete).
NullPtr == [null |-> TRUE, at |-> << >>, owner |-> "own"]
Ptr(x) == [null |-> FALSE, at |-> x, owner |-> "own"]
EnginePtr(x) == [null |-> FALSE, at |-> x, owner |-> "cert_object"]
is_null(p) == p.null

Min(a, b) == IF a < b THEN a ELSE b

----------------------------------------------------------------------------
(* Option<T>                                                               *)

None == << >>
Some(v) == << v >>
is_some(o) == o # << >>
unwrap(o) == o[1]
unwrap_or(o, d) == IF o = << >> THEN d ELSE o[1]

----------------------------------------------------------------------------
(* Test data: byte strings of a given length.                              *)

\* n non-zero bytes, pattern k
Str(n, k) == [i \in 1..n |-> 1 + ((i + k) % MaxByte)]
\* n bytes, pattern k, zero bytes included
Bytes(n, k) == [i \in 1..n |-> (i + k) % (MaxByte + 1)]
\* n non-zero bytes with a zero byte at position p
StrNul(n, p) == [i \in 1..n |-> IF i = p THEN 0 ELSE 1 + (i % MaxByte)]

----------------------------------------------------------------------------
(* CertificateSerialNo                                                     *)

\* CertificateSerialNo::new(): all zero
CertificateSerialNo_new == [i \in 1..SerialNoSize |-> 0]

\* a plausible slip: the length is not clamped, the copy runs to len(v)
CertificateSerialNo_from_noclamp(v) ==
    [i \in 1..(IF Len(v) > SerialNoSize THEN Len(v) ELSE SerialNoSize) |->
        IF i <= Len(v) THEN v[i] ELSE 0]

\* impl From<&[u8]> for CertificateSerialNo
CertificateSerialNo_from(v) ==
    LET l == IF Len(v) > SerialNoSize THEN SerialNoSize ELSE Len(v)
        s == CertificateSerialNo_new
    IN  [i \in 1..SerialNoSize |-> IF i <= l THEN v[i] ELSE s[i]]

\* a 48-byte serial number used as test data
SN(k) == [i \in 1..SerialNoSize |-> (i + k) % (MaxByte + 1)]

\* Text is a sequence of characters.  The digits hex::encode writes, and
\* the further ones hex::decode reads.
HexLower ==
    << "0", "1", "2", "3", "4", "5", "6", "7",
       "8", "9", "a", "b", "c", "d", "e", "f" >>

HexUpper == << "A", "B", "C", "D", "E", "F" >>

\* the value of a hex digit, None for any other character
HexVal(c) ==
    IF \E i \in 1..Len(HexLower) : HexLower[i] = c
    THEN Some((CHOOSE i \in 1..Len(HexLower) : HexLower[i] = c) - 1)
    ELSE IF \E i \in 1..Len(HexUpper) : HexUpper[i] = c
         THEN Some((CHOOSE i \in 1..Len(HexUpper) : HexUpper[i] = c) + 9)
         ELSE None

\* hex::decode: an odd length or a character that is no hex digit is an
\* error, else one byte per two characters
hex_decode(s) ==
    IF Len(s) % 2 # 0
    THEN [ok |-> FALSE, val |-> << >>]
    ELSE IF \E i \in 1..Len(s) : ~is_some(HexVal(s[i]))
         THEN [ok |-> FALSE, val |-> << >>]
         ELSE [ok |-> TRUE,
               val |-> [k \in 1..(Len(s) \div 2) |->
                           16 * unwrap(HexVal(s[2 * k - 1]))
                           + unwrap(HexVal(s[2 * k]))]]

\* hex::encode: two lowercase digits per byte
hex_encode(b) ==
    [i \in 1..(2 * Len(b)) |->
        IF i % 2 = 1
        THEN HexLower[1 + (b[(i + 1) \div 2] \div 16)]
        ELSE HexLower[1 + (b[i \div 2] % 16)]]

\* a plausible slip: text that does not decode to 48 bytes is rejected
CertificateSerialNo_new_from_string_strict(s) ==
    LET b == hex_decode(s)
    IN  IF ~b.ok \/ Len(b.val) # SerialNoSize
        THEN [ok |-> FALSE, val |-> None, err |-> "ErrorBadParameter"]
        ELSE [ok |-> TRUE, val |-> Some(CertificateSerialNo_from(b.val)),
              err |-> "None"]

\* CertificateSerialNo::new_from_string
CertificateSerialNo_new_from_string(s) ==
    LET b == hex_decode(s)
    IN  IF ~b.ok
        THEN [ok |-> FALSE, val |-> None, err |-> "ErrorBadParameter"]
        ELSE [ok |-> TRUE, val |-> Some(CertificateSerialNo_from(b.val)),
              err |-> "None"]

\* a plausible slip: the digits are written in upper case
CertificateSerialNo_to_string_upper(self) ==
    LET s == hex_encode(self)
    IN  [i \in 1..Len(s) |->
            IF unwrap(HexVal(s[i])) >= 10
            THEN HexUpper[unwrap(HexVal(s[i])) - 9]
            ELSE s[i]]

\* impl ToString for CertificateSerialNo
CertificateSerialNo_to_string(self) == hex_encode(self)

----------------------------------------------------------------------------
(* CertificateName                                                         *)

NameFields ==
    {"serialNo", "commonName", "country", "organization", "unit", "locality",
     "province", "streetAddress", "postalCode", "email", "url", "host"}

\* zeroed(): a C buffer of 128 zero bytes
ZeroedCStr == [i \in 0..(CStrBufSize - 1) |-> 0]

\* a plausible slip: clamping at 127 instead of 126, so the terminator is
\* written at index 128
str_to_cert_cstr_clamp127(s, cs) ==
    LET l0 == Len(s) IN
    IF l0 = 0
    THEN [cs |-> [cs EXCEPT ![0] = 0], wrote |-> {0}]
    ELSE LET l == IF l0 > CStrClamp + 1 THEN CStrClamp + 1 ELSE l0
         IN  [cs |-> [i \in 0..(CStrBufSize - 1) |->
                         IF i = l + 1 THEN 0
                         ELSE IF i < l THEN s[i + 1] ELSE cs[i]],
              wrote |-> (0..(l - 1)) \cup {l + 1}]

\* CertificateName::str_to_cert_cstr: the buffer after the call, and (ghost)
\* the indices of cs it wrote
str_to_cert_cstr(s, cs) ==
    LET l0 == Len(s) IN
    IF l0 = 0
    THEN [cs |-> [cs EXCEPT ![0] = 0], wrote |-> {0}]
    ELSE LET l == IF l0 > CStrClamp THEN CStrClamp ELSE l0
         IN  [cs |-> [i \in 0..(CStrBufSize - 1) |->
                         IF i = l + 1 THEN 0
                         ELSE IF i < l THEN s[i + 1] ELSE cs[i]],
              wrote |-> (0..(l - 1)) \cup {l + 1}]

\* CertificateName::to_capi: every field marshalled into a zeroed struct
CertificateName_to_capi(self) ==
    [f \in NameFields |-> str_to_cert_cstr(self[f], ZeroedCStr).cs]

\* the number of bytes of cs before its first zero byte, counting from i and
\* stopping at max_len
RECURSIVE cstr_len(_, _, _)
cstr_len(cs, i, max_len) ==
    IF i >= max_len \/ i \notin DOMAIN cs \/ cs[i] = 0
    THEN i
    ELSE cstr_len(cs, i + 1, max_len)

\* cstr_to_string(ptr, max_len): the bytes before the first zero byte, at
\* most max_len of them
cstr_to_string(cs, max_len) ==
    LET n == cstr_len(cs, 0, max_len)
    IN  [i \in 1..n |-> cs[i - 1]]

\* CertificateName::new_from_capi
CertificateName_new_from_capi(cn) ==
    [f \in NameFields |->
        cstr_to_string(cn[f], CERTIFICATE_MAX_STRING_LENGTH - 1)]

----------------------------------------------------------------------------
(* Identity and Locator (crate::Identity, crate::Locator): a Rust value    *)
(* wrapping a pointer to an engine object; requires_delete says whether    *)
(* the Rust value owns that object.                                        *)

Identity_new_from_capi(id, requires_delete) ==
    [capi |-> id, requires_delete |-> requires_delete]

\* Clone: ZT_Identity_clone makes a new engine object owned by the clone
Identity_clone(self) ==
    Identity_new_from_capi(Ptr(self.capi.at), TRUE)

Identity_has_private(self) == self.capi.at.priv

Locator_new_from_capi(loc, requires_delete) ==
    [capi |-> loc, requires_delete |-> requires_delete]

Locator_clone(self) ==
    Locator_new_from_capi(Ptr(self.capi.at), TRUE)

----------------------------------------------------------------------------
(* CertificateNetwork                                                      *)

CertificateNetwork_new_from_capi(cn) ==
    [id |-> cn.id,
     controller |-> [address |-> cn.controller.address,
                     hash |-> cn.controller.hash]]

CertificateNetwork_to_capi(self) ==
    [id |-> self.id,
     controller |-> [address |-> self.controller.address,
                     hash |-> self.controller.hash]]

----------------------------------------------------------------------------
(* CertificateIdentity                                                     *)

CertificateIdentity_new_from_capi(ci) ==
    IF is_null(ci.identity)
    THEN None
    ELSE Some([identity |->
                   Identity_clone(Identity_new_from_capi(ci.identity, FALSE)),
               locator |->
                   IF is_null(ci.locator)
                   THEN None
                   ELSE Some(Locator_clone(
                                 Locator_new_from_capi(ci.locator, FALSE)))])

CertificateIdentity_to_capi(self) ==
    [identity |-> self.identity.capi,
     locator |-> IF is_some(self.locator)
                 THEN unwrap(self.locator).capi
                 ELSE NullPtr]

----------------------------------------------------------------------------
(* C strings and slices                                                    *)

\* CString::new(s): Err (None here) when s holds a zero byte, else the bytes
\* of s followed by a terminator, indexed from 0
CString_new(s) ==
    IF \E i \in 1..Len(s) : s[i] = 0
    THEN None
    ELSE Some([i \in 0..Len(s) |-> IF i < Len(s) THEN s[i + 1] ELSE 0])

\* std::slice::from_raw_parts(ptr, count) on an array of the model
from_raw_parts(arr, count) == SubSeq(arr, 1, count)

\* a plausible slip: the loop stops at the first None instead of skipping it
RECURSIVE PushSome_until_none(_)
PushSome_until_none(opts) ==
    IF Len(opts) = 0 \/ ~is_some(Head(opts))
    THEN << >>
    ELSE << unwrap(Head(opts)) >> \o PushSome_until_none(Tail(opts))

\* the values pushed by a loop that pushes the Some results it is given, in
\* order
PushSome(opts) ==
    LET kept == SelectSeq(opts, is_some)
    IN  [k \in 1..Len(kept) |-> unwrap(kept[k])]

----------------------------------------------------------------------------
(* CertificateSubject                                                      *)

CertificateSubject_new_from_capi(cs) ==
    LET identities ==
            IF ~is_null(cs.identities) /\ cs.identityCount > 0
            THEN LET ci == from_raw_parts(cs.identities.at, cs.identityCount)
                 IN  PushSome([k \in 1..Len(ci) |->
                                  CertificateIdentity_new_from_capi(ci[k])])
            ELSE << >>
        networks ==
            IF ~is_null(cs.networks) /\ cs.networkCount > 0
            THEN LET cn == from_raw_parts(cs.networks.at, cs.networkCount)
                 IN  [k \in 1..Len(cn) |->
                         CertificateNetwork_new_from_capi(cn[k])]
            ELSE << >>
        certificates ==
            IF ~is_null(cs.certificates) /\ cs.certificateCount > 0
            THEN LET cc == from_raw_parts(cs.certificates.at,
                                          cs.certificateCount)
                 IN  [k \in 1..Len(cc) |->
                         [i \in 1..SerialNoSize |-> cc[k].at[i]]]
            ELSE << >>
        update_urls ==
            IF ~is_null(cs.updateURLs) /\ cs.updateURLCount > 0
            THEN LET cu == from_raw_parts(cs.updateURLs.at, cs.updateURLCount)
                 IN  [k \in 1..Len(cu) |->
                         cstr_to_string(cu[k],
                                        CERTIFICATE_MAX_STRING_LENGTH - 1)]
            ELSE << >>
    IN  [timestamp |-> cs.timestamp,
         identities |-> identities,
         networks |-> networks,
         certificates |-> certificates,
         updateURLs |-> update_urls,
         name |-> CertificateName_new_from_capi(cs.name),
         uniqueId |-> from_raw_parts(cs.uniqueId, cs.uniqueIdSize),
         uniqueIdProofSignature |->
             from_raw_parts(cs.uniqueIdProofSignature,
                            cs.uniqueIdProofSignatureSize)]

\* the .subject of the container CertificateSubject::to_capi builds
CertificateSubject_to_capi(self) ==
    LET capi_identities ==
            [k \in 1..Len(self.identities) |->
                CertificateIdentity_to_capi(self.identities[k])]
        capi_networks ==
            [k \in 1..Len(self.networks) |->
                CertificateNetwork_to_capi(self.networks[k])]
        capi_certificates ==
            [k \in 1..Len(self.certificates) |-> Ptr(self.certificates[k])]
        capi_urls ==
            PushSome([k \in 1..Len(self.updateURLs) |->
                         CString_new(self.updateURLs[k])])
    IN  [timestamp |-> self.timestamp,
         identities |-> Ptr(capi_identities),
         networks |-> Ptr(capi_networks),
         certificates |-> Ptr(capi_certificates),
         updateURLs |-> Ptr(capi_urls),
         identityCount |-> Len(capi_identities),
         networkCount |-> Len(capi_networks),
         certificateCount |-> Len(capi_certificates),
         updateURLCount |-> Len(capi_urls),
         name |-> CertificateName_to_capi(self.name),
         uniqueId |-> self.uniqueId,
         uniqueIdProofSignature |-> self.uniqueIdProofSignature,
         uniqueIdSize |-> Len(self.uniqueId),
         uniqueIdProofSignatureSize |-> Len(self.uniqueIdProofSignature)]

----------------------------------------------------------------------------
(* Certificate                                                             *)

Certificate_new_from_capi(c) ==
    LET crl ==
            IF ~is_null(c.crl) /\ c.crlCount > 0
            THEN LET ccrl == SelectSeq(from_raw_parts(c.crl.at, c.crlCount),
                                       LAMBDA p : ~is_null(p))
                 IN  [k \in 1..Len(ccrl) |->
                         [i \in 1..SerialNoSize |-> ccrl[k].at[i]]]
            ELSE << >>
    IN  [serialNo |-> c.serialNo,
         flags |-> c.flags,
         timestamp |-> c.timestamp,
         validity |-> c.validity,
         subject |-> CertificateSubject_new_from_capi(c.subject),
         issuer |-> Identity_new_from_capi(c.issuer, FALSE),
         issuerName |-> CertificateName_new_from_capi(c.issuerName),
         extendedAttributes |->
             from_raw_parts(c.extendedAttributes, c.extendedAttributesSize),
         maxPathLength |-> c.maxPathLength,
         crl |-> crl,
         signature |-> from_raw_parts(c.signature, c.signatureSize)]

\* the .certificate of the container Certificate::to_capi builds
Certificate_to_capi(self) ==
    LET capi_crls == [k \in 1..Len(self.crl) |-> Ptr(self.crl[k])]
        subject == CertificateSubject_to_capi(self.subject)
    IN  [serialNo |-> self.serialNo,
         flags |-> self.flags,
         timestamp |-> self.timestamp,
         validity |-> self.validity,
         subject |-> subject,
         issuer |-> self.issuer.capi,
         issuerName |-> CertificateName_to_capi(self.issuerName),
         extendedAttributes |-> self.extendedAttributes,
         extendedAttributesSize |-> Len(self.extendedAttributes),
         maxPathLength |-> self.maxPathLength,
         crl |-> Ptr(capi_crls),
         crlCount |-> Len(capi_crls),
         signature |-> self.signature,
         signatureSize |-> Len(self.signature)]

----------------------------------------------------------------------------
(* CertificateError                                                        *)

CertificateErrorKinds ==
    << "None", "HaveNewerCert", "InvalidFormat", "InvalidIdentity",
       "InvalidPrimarySignature", "InvalidChain", "InvalidComponentSignature",
       "InvalidUniqueIdProof", "MissingRequiredFields",
       "OutOfValidTimeWindow" >>

\* the discriminant of a kind: ztcore::ZT_CertificateError_ZT_CERTIFICATE_ERROR_*
ZT_CertificateError(kind) ==
    (CHOOSE i \in 1..Len(CertificateErrorKinds) :
         CertificateErrorKinds[i] = kind) - 1

ZT_CERTIFICATE_ERROR_NONE == ZT_CertificateError("None")

\* a u32, kept as its two 16-bit halves
U32(hi, lo) == [hi |-> hi, lo |-> lo]

\* `x as u32` of a c_int (32 bits, two's complement): x mod 2^32
AsU32(x) ==
    IF x >= 0
    THEN U32(x \div TwoPow16, x % TwoPow16)
    ELSE LET y == (x + (2 ^ 30 - 1 + 2 ^ 30)) + 1
         IN  U32((2 ^ 15) + (y \div TwoPow16), y % TwoPow16)

\* #[derive(FromPrimitive)]: the kind whose discriminant is n, if any
CertificateError_from_u32(n) ==
    LET hits == {i \in 1..Len(CertificateErrorKinds) :
                    AsU32(ZT_CertificateError(CertificateErrorKinds[i])) = n}
    IN  IF hits = {} THEN None
        ELSE Some(CertificateErrorKinds[CHOOSE i \in hits : TRUE])

\* the codes the engine may report: the known ones and ExtraCodes unknown
\* ones on each side
EngineCodes ==
    (0 - ExtraCodes)..(Len(CertificateErrorKinds) - 1 + ExtraCodes)

----------------------------------------------------------------------------
(* The engine (ZT_Certificate_* of the C API).  A byte string it produces  *)
(* is kept as what it encodes: kind says what was encoded, image is the    *)
(* content a decode rebuilds the structure from, enc the encoded length    *)
(* and len the length of the byte string (enc bytes of encoding, then zero *)
(* bytes).                                                                 *)

NoBytes == [kind |-> "none", image |-> << >>, enc |-> 0, len |-> 0]

\* Vec::resize(n, 0) on a byte string
Vec_resize(buf, n) == [buf EXCEPT !.len = n]

\* a name as the engine encodes it: of each field's buffer, the C string
EngineName(cn) ==
    [f \in NameFields |-> cstr_to_string(cn[f], CStrBufSize - 1)]

\* a name as the engine decodes it: each field's string in a 128-byte buffer
EngineNameBuffers(n) ==
    [f \in NameFields |->
        [i \in 0..(CStrBufSize - 1) |->
            IF i < Len(n[f]) THEN n[f][i + 1] ELSE 0]]

\* the certificate object a decode builds from an encoded image
EngineObject(image) ==
    [image EXCEPT !.subject.name = EngineNameBuffers(@),
                  !.issuerName = EngineNameBuffers(@)]

\* an array as the engine keeps it: null when empty
EngineArray(arr) == IF Len(arr) = 0 THEN NullPtr ELSE EnginePtr(arr)

EngineSubject(cs) ==
    LET ids == from_raw_parts(cs.identities.at, cs.identityCount)
        nets == from_raw_parts(cs.networks.at, cs.networkCount)
        certs == from_raw_parts(cs.certificates.at, cs.certificateCount)
        urls == from_raw_parts(cs.updateURLs.at, cs.updateURLCount)
    IN  [timestamp |-> cs.timestamp,
         identities |-> EngineArray(
             [k \in 1..Len(ids) |->
                 [identity |-> EnginePtr(ids[k].identity.at),
                  locator |-> IF is_null(ids[k].locator) THEN NullPtr
                              ELSE EnginePtr(ids[k].locator.at)]]),
         networks |-> EngineArray(nets),
         certificates |-> EngineArray(
             [k \in 1..Len(certs) |-> EnginePtr(certs[k].at)]),
         updateURLs |-> EngineArray(urls),
         identityCount |-> Len(ids),
         networkCount |-> Len(nets),
         certificateCount |-> Len(certs),
         updateURLCount |-> Len(urls),
         name |-> EngineName(cs.name),
         uniqueId |-> from_raw_parts(cs.uniqueId, cs.uniqueIdSize),
         uniqueIdProofSignature |->
             from_raw_parts(cs.uniqueIdProofSignature,
                            cs.uniqueIdProofSignatureSize),
         uniqueIdSize |-> cs.uniqueIdSize,
         uniqueIdProofSignatureSize |-> cs.uniqueIdProofSignatureSize]

EngineCertificate(c) ==
    LET crls == from_raw_parts(c.crl.at, c.crlCount)
    IN  [serialNo |-> c.serialNo,
         flags |-> c.flags,
         timestamp |-> c.timestamp,
         validity |-> c.validity,
         subject |-> EngineSubject(c.subject),
         issuer |-> EnginePtr(c.issuer.at),
         issuerName |-> EngineName(c.issuerName),
         extendedAttributes |->
             from_raw_parts(c.extendedAttributes, c.extendedAttributesSize),
         extendedAttributesSize |-> c.extendedAttributesSize,
         maxPathLength |-> c.maxPathLength,
         crl |-> EngineArray([k \in 1..Len(crls) |-> EnginePtr(crls[k].at)]),
         crlCount |-> Len(crls),
         signature |-> from_raw_parts(c.signature, c.signatureSize),
         signatureSize |-> c.signatureSize]

\* the encoded sizes the engine reports on success: the smallest, and one
\* that fills the buffer
EngineSizes == {1, BufSize}

\* what the engine may answer to an encode, sign or newCSR into a buffer:
\* failure (the encoding does not fit), or success with the encoded size
EngineAnswers ==
    {[rc |-> 1, size |-> 0]} \cup {[rc |-> 0, size |-> n] : n \in EngineSizes}

\* ZT_Certificate_encode(cert, buf, &size): return code, buffer and size after
ZT_Certificate_encode(cert, buf, eng) ==
    IF eng.rc # 0
    THEN [rc |-> eng.rc, buf |-> buf, size |-> buf.len]
    ELSE [rc |-> 0,
          buf |-> [kind |-> "cert", image |-> EngineCertificate(cert),
                   enc |-> eng.size, len |-> buf.len],
          size |-> eng.size]

\* the signature the engine makes with an identity
EngineSignature(id) == << 2, 1, id.at.key >>

\* ZT_Certificate_sign(cert, signer, buf, &size)
ZT_Certificate_sign(cert, id, buf, eng) ==
    IF eng.rc # 0
    THEN [rc |-> eng.rc, buf |-> buf, size |-> buf.len]
    ELSE [rc |-> 0,
          buf |-> [kind |-> "cert",
                   image |-> [EngineCertificate(cert) EXCEPT
                                 !.signature = EngineSignature(id),
                                 !.signatureSize = Len(EngineSignature(id))],
                   enc |-> eng.size, len |-> buf.len],
          size |-> eng.size]

\* the proof of possession the engine makes with a unique ID secret
EngineProof(uid) == << 1 >> \o uid.public

\* ZT_Certificate_newCSR(subject, uid, uidSize, uidPrivate, uidPrivateSize,
\* buf, &size): with a unique ID the engine embeds it and its proof
ZT_Certificate_newCSR(subject, uid, buf, eng) ==
    IF eng.rc # 0
    THEN [rc |-> eng.rc, buf |-> buf, size |-> buf.len]
    ELSE [rc |-> 0,
          buf |-> [kind |-> "csr",
                   image |->
                       IF is_some(uid)
                       THEN [EngineSubject(subject) EXCEPT
                                !.uniqueId = unwrap(uid).public,
                                !.uniqueIdSize = Len(unwrap(uid).public),
                                !.uniqueIdProofSignature =
                                    EngineProof(unwrap(uid)),
                                !.uniqueIdProofSignatureSize =
                                    Len(EngineProof(unwrap(uid)))]
                       ELSE EngineSubject(subject),
                   enc |-> eng.size, len |-> buf.len],
          size |-> eng.size]

\* a byte string is a well-formed certificate encoding when it is exactly
\* the bytes an encode or sign produced
WellFormed(b) == b.kind = "cert" /\ b.len = b.enc

\* ZT_Certificate_decode(&cert, bytes, len, verify).  disp is the engine's
\* part: the verdict its verification reaches on these bytes, and whether
\* it hands back an object
ZT_Certificate_decode(b, verify, disp) ==
    IF ~WellFormed(b)
    THEN [result |-> ZT_CertificateError("InvalidFormat"),
          capi_cert |-> NullPtr]
    ELSE IF verify # 0 /\ disp.verdict # ZT_CERTIFICATE_ERROR_NONE
    THEN [result |-> disp.verdict, capi_cert |-> NullPtr]
    ELSE [result |-> ZT_CERTIFICATE_ERROR_NONE,
          capi_cert |-> IF disp.alloc THEN EnginePtr(EngineObject(b.image))
                        ELSE NullPtr]

\* what a pointer kept past ZT_Certificate_delete leads to: memory of the
\* released object reads as anything
Released(p, junk) ==
    IF ~is_null(p) /\ p.owner = "cert_object"
    THEN [p EXCEPT !.at = junk]
    ELSE p

----------------------------------------------------------------------------
(* The public operations.  Each gives the Result it returns (ok, with val  *)
(* on Ok and err on Err), and as ghost values the engine calls it made, in *)
(* order, and self as it is after the call.                                *)

Result(ok, val, err, calls, self) ==
    [ok |-> ok, val |-> val, err |-> err, calls |-> calls, self |-> self]

\* let capi_verify: c_int = if verify { 1 } else { 0 };
capi_verify_always(verify) == 1

capi_verify_of(verify) == IF verify THEN 1 ELSE 0

\* a plausible slip: an unknown engine code falls back to None
new_from_bytes_default_none(b, verify, disp, junk) ==
    LET r == ZT_Certificate_decode(b, capi_verify_of(verify), disp)
    IN  IF r.result # ZT_CERTIFICATE_ERROR_NONE
        THEN Result(FALSE, None,
                    unwrap_or(CertificateError_from_u32(AsU32(r.result)),
                              "None"),
                    << "ZT_Certificate_decode" >>, None)
        ELSE IF is_null(r.capi_cert)
        THEN Result(FALSE, None, "InvalidFormat",
                    << "ZT_Certificate_decode" >>, None)
        ELSE LET cert == Certificate_new_from_capi(r.capi_cert.at)
             IN  Result(TRUE,
                        Some([cert EXCEPT
                                 !.issuer.capi = Released(@, junk)]),
                        "",
                        << "ZT_Certificate_decode", "ZT_Certificate_delete" >>,
                        None)

\* Certificate::new_from_bytes.  junk is what the released certificate
\* object's memory reads as afterwards.
new_from_bytes(b, verify, disp, junk) ==
    LET r == ZT_Certificate_decode(b, capi_verify_of(verify), disp)
    IN  IF r.result # ZT_CERTIFICATE_ERROR_NONE
        THEN Result(FALSE, None,
                    unwrap_or(CertificateError_from_u32(AsU32(r.result)),
                              "InvalidFormat"),
                    << "ZT_Certificate_decode" >>, None)
        ELSE IF is_null(r.capi_cert)
        THEN Result(FALSE, None, "InvalidFormat",
                    << "ZT_Certificate_decode" >>, None)
        ELSE LET cert == Certificate_new_from_capi(r.capi_cert.at)
             IN  Result(TRUE,
                        Some([cert EXCEPT
                                 !.issuer.capi = Released(@, junk)]),
                        "",
                        << "ZT_Certificate_decode", "ZT_Certificate_delete" >>,
                        None)

\* a fresh Vec<u8> resized to 16384 zero bytes
ScratchBuf == Vec_resize(NoBytes, BufSize)

\* a plausible slip: the output is not trimmed to the encoded size
to_bytes_untrimmed(self, eng) ==
    LET r == ZT_Certificate_encode(Certificate_to_capi(self), ScratchBuf, eng)
    IN  IF r.rc # 0
        THEN Result(FALSE, None, "ErrorInternalNonFatal",
                    << "ZT_Certificate_encode" >>, self)
        ELSE Result(TRUE, Some(r.buf), "",
                    << "ZT_Certificate_encode" >>, self)

\* Certificate::to_bytes
to_bytes(self, eng) ==
    LET r == ZT_Certificate_encode(Certificate_to_capi(self), ScratchBuf, eng)
    IN  IF r.rc # 0
        THEN Result(FALSE, None, "ErrorInternalNonFatal",
                    << "ZT_Certificate_encode" >>, self)
        ELSE Result(TRUE, Some(Vec_resize(r.buf, r.size)), "",
                    << "ZT_Certificate_encode" >>, self)

\* a plausible slip: the private key is not checked before signing
sign_unchecked(self, id, eng) ==
    LET r == ZT_Certificate_sign(Certificate_to_capi(self), id.capi,
                                 ScratchBuf, eng)
    IN  IF r.rc # 0
        THEN Result(FALSE, None, "ErrorBadParameter",
                    << "ZT_Certificate_sign" >>, self)
        ELSE Result(TRUE, Some(Vec_resize(r.buf, r.size)), "",
                    << "ZT_Certificate_sign" >>, self)

\* a plausible slip: sign stores the signature it made in self
sign_storing(self, id, eng) ==
    IF ~Identity_has_private(id)
    THEN Result(FALSE, None, "ErrorBadParameter", << >>, self)
    ELSE LET r == ZT_Certificate_sign(Certificate_to_capi(self), id.capi,
                                      ScratchBuf, eng)
         IN  IF r.rc # 0
             THEN Result(FALSE, None, "ErrorBadParameter",
                         << "ZT_Certificate_sign" >>, self)
             ELSE Result(TRUE, Some(Vec_resize(r.buf, r.size)), "",
                         << "ZT_Certificate_sign" >>,
                         [self EXCEPT !.signature = r.buf.image.signature])

\* Certificate::sign
sign(self, id, eng) ==
    IF ~Identity_has_private(id)
    THEN Result(FALSE, None, "ErrorBadParameter", << >>, self)
    ELSE LET r == ZT_Certificate_sign(Certificate_to_capi(self), id.capi,
                                      ScratchBuf, eng)
         IN  IF r.rc # 0
             THEN Result(FALSE, None, "ErrorBadParameter",
                         << "ZT_Certificate_sign" >>, self)
             ELSE Result(TRUE, Some(Vec_resize(r.buf, r.size)), "",
                         << "ZT_Certificate_sign" >>, self)

\* a plausible slip: an unknown engine code falls back to None
verify_default_none(self, code) ==
    Result(TRUE,
           Some(unwrap_or(CertificateError_from_u32(AsU32(code)), "None")),
           "", << "ZT_Certificate_verify" >>, self)

\* Certificate::verify; code is what ZT_Certificate_verify returns for
\* self.to_capi()
verify(self, code) ==
    Result(TRUE,
           Some(unwrap_or(CertificateError_from_u32(AsU32(code)),
                          "InvalidFormat")),
           "", << "ZT_Certificate_verify" >>, self)

\* CertificateSubject::new_csr
new_csr(self, uid, eng) ==
    LET r == ZT_Certificate_newCSR(CertificateSubject_to_capi(self), uid,
                                   ScratchBuf, eng)
    IN  IF r.rc # 0
        THEN Result(FALSE, None, "ErrorBadParameter",
                    << "ZT_Certificate_newCSR" >>, self)
        ELSE Result(TRUE, Some(r.buf), "",
                    << "ZT_Certificate_newCSR" >>, self)

----------------------------------------------------------------------------
(* Test data: the certificates, identities and inputs the operations are   *)
(* applied to.                                                             *)

\* an Identity the caller owns
Id(k, b) == Identity_new_from_capi(Ptr([key |-> k, priv |-> b]), TRUE)

Loc(n) == Locator_new_from_capi(Ptr([endpoint |-> n]), TRUE)

\* lengths around the limits of the 128-byte name buffers, and short ones
NameLens == {0, 1} \cup (CStrClamp..MaxStrLen)

NameStrs == {Str(n, 0) : n \in NameLens} \cup {StrNul(3, 2)}

MkName(cn, h) ==
    [serialNo |-> << >>, commonName |-> cn, country |-> Str(2, 1),
     organization |-> Str(3, 0), unit |-> << >>, locality |-> Str(1, 1),
     province |-> << >>, streetAddress |-> Str(4, 0), postalCode |-> Str(2, 0),
     email |-> Str(5, 1), url |-> Str(6, 0), host |-> h]

UrlLists ==
    { << >>, << Str(3, 0) >>, << Str(3, 0), Str(4, 1) >>,
      << StrNul(3, 2), Str(2, 0) >>, << Str(MaxStrLen, 1) >> }

SerialLists == { << >>, << SN(1) >>, << SN(2), SN(1) >> }

MkSubject(n, urls, sns) ==
    [timestamp |-> 1,
     identities |->
         IF sns = << >> THEN << >>
         ELSE << [identity |-> Id(1, FALSE), locator |-> None],
                 [identity |-> Id(2, FALSE), locator |-> Some(Loc(1))] >>,
     networks |->
         IF sns = << >> THEN << >>
         ELSE << [id |-> 7, controller |-> [address |-> 3, hash |-> SN(2)]] >>,
     certificates |-> sns,
     updateURLs |-> urls,
     name |-> MkName(n, Str(1, 0)),
     uniqueId |-> << >>,
     uniqueIdProofSignature |-> << >>]

MkCert(n, urls, sns, sig) ==
    [serialNo |-> SN(0),
     flags |-> 1,
     timestamp |-> 1,
     validity |-> << 0, 2 >>,
     subject |-> MkSubject(n, urls, sns),
     issuer |-> Id(1, TRUE),
     issuerName |-> MkName(Str(2, 0), n),
     extendedAttributes |-> IF sns = << >> THEN << >> ELSE << 2, 0, 1 >>,
     maxPathLength |-> 1,
     crl |-> sns,
     signature |-> sig]

Certs ==
    {MkCert(n, << >>, << >>, << 1, 2 >>) : n \in NameStrs}
    \cup {MkCert(Str(1, 0), u, << SN(2), SN(1) >>, << 1, 2 >>) : u \in UrlLists}
    \cup {MkCert(Str(1, 0), << >>, s, << 1, 2 >>) : s \in SerialLists}
    \cup {MkCert(Str(1, 0), << >>, << >>, << >>)}

\* the identities sign is called with: one with and one without private key
SignerIds == {Id(2, TRUE), Id(2, FALSE)}

UniqueIdSecrets ==
    {None, Some([public |-> << 1, 2 >>, private |-> << 2, 1 >>,
                 type_ |-> "NistP384"])}

Dispositions ==
    {[verdict |-> c, alloc |-> a] : c \in EngineCodes, a \in BOOLEAN}

\* what the memory of a released identity may read as afterwards: what it
\* held (the issuer of every certificate above), or something else
JunkObjects == {[key |-> 1, priv |-> TRUE], [key |-> 2, priv |-> FALSE]}

\* the strings and slices the marshalling functions are applied to
FieldStrs == {Str(n, k) : n \in 0..MaxStrLen, k \in 0..1}

Slices == {Bytes(n, k) : n \in 0..MaxSliceLen, k \in 0..1}

----------------------------------------------------------------------------
(* The state: the caller's in-memory Certificate, and the last call: its   *)
(* operation, its arguments, the engine's part in it and its result.       *)

\* the empty argument list, the absent engine answer, the absent result
Void == [void |-> TRUE]

VARIABLES cert, last

vars == << cert, last >>

Init ==
    /\ cert \in Certs
    /\ last = [op |-> "none", arg |-> Void, eng |-> Void, r |-> Void]

Sign ==
    \E id \in SignerIds, eng \in EngineAnswers :
        LET r == sign(cert, id, eng)
        IN  /\ last' = [op |-> "sign", arg |-> [id |-> id], eng |-> eng,
                        r |-> r]
            /\ cert' = r.self

ToBytes ==
    \E eng \in EngineAnswers :
        LET r == to_bytes(cert, eng)
        IN  /\ last' = [op |-> "to_bytes", arg |-> Void, eng |-> eng, r |-> r]
            /\ cert' = r.self

Verify ==
    \E code \in EngineCodes :
        LET r == verify(cert, code)
        IN  /\ last' = [op |-> "verify", arg |-> Void,
                        eng |-> [result |-> code], r |-> r]
            /\ cert' = r.self

NewCsr ==
    \E uid \in UniqueIdSecrets, eng \in EngineAnswers :
        LET r == new_csr(cert.subject, uid, eng)
        IN  /\ last' = [op |-> "new_csr", arg |-> [uid |-> uid], eng |-> eng,
                        r |-> r]
            /\ cert' = [cert EXCEPT !.subject = r.self]

\* the bytes the last call returned, if it returned any, else no bytes
BytesAtHand ==
    IF last.op \in {"sign", "to_bytes", "new_csr"} /\ last.r.ok
    THEN unwrap(last.r.val)
    ELSE NoBytes

\* decoding the bytes the last call returned, or those bytes with the last
\* one cut off; from names the operation that made them.  The engine's
\* verdict and allocation are drawn for input it can parse, the state of the
\* released memory for a decode that released an object.
NewFromBytes ==
    \E vfy \in BOOLEAN, cut \in BOOLEAN :
        /\ BytesAtHand.len > 0
        /\ LET b == IF cut
                    THEN Vec_resize(BytesAtHand, BytesAtHand.len - 1)
                    ELSE BytesAtHand
           IN  \E disp \in IF WellFormed(b)
                           THEN Dispositions
                           ELSE {[verdict |-> ZT_CERTIFICATE_ERROR_NONE,
                                  alloc |-> FALSE]} :
                 \E junk \in IF disp.alloc
                             THEN JunkObjects
                             ELSE {[key |-> 1, priv |-> TRUE]} :
                   LET r == new_from_bytes(b, vfy, disp, junk)
                       e == ZT_Certificate_decode(b, capi_verify_of(vfy), disp)
                   IN  last' = [op |-> "new_from_bytes",
                                arg |-> [b |-> b, verify |-> vfy,
                                         from |-> last.op],
                                eng |-> [result |-> e.result,
                                         is_null |-> is_null(e.capi_cert),
                                         verdict |-> disp.verdict],
                                r |-> r]
        /\ UNCHANGED cert

Next ==
    \/ Sign
    \/ ToBytes
    \/ Verify
    \/ NewCsr
    \/ NewFromBytes

Spec == Init /\ [][Next]_vars

----------------------------------------------------------------------------
(* The marshalling functions on their own: one Name field marshalled as    *)
(* CertificateName::to_capi does it (into a zeroed struct), and a serial   *)
(* number made from a byte slice.                                          *)

InitPure ==
    /\ cert = MkCert(<< >>, << >>, << >>, << >>)
    /\ last = [op |-> "none", arg |-> Void, eng |-> Void, r |-> Void]

NameFieldToCapi ==
    \E s \in FieldStrs :
        /\ last' = [op |-> "str_to_cert_cstr", arg |-> [s |-> s], eng |-> Void,
                    r |-> str_to_cert_cstr(s, ZeroedCStr)]
        /\ UNCHANGED cert

SpecName == InitPure /\ [][NameFieldToCapi]_vars

SerialNoFromSlice ==
    \E v \in Slices :
        /\ last' = [op |-> "CertificateSerialNo_from", arg |-> [v |-> v],
                    eng |-> Void, r |-> CertificateSerialNo_from(v)]
        /\ UNCHANGED cert

SpecSerialNo == InitPure /\ [][SerialNoFromSlice]_vars

----------------------------------------------------------------------------
(* CertificateSubjectUniqueIdSecret                                        *)

CERTIFICATE_UNIQUE_ID_CREATE_BUF_SIZE == 128

\* ZT_Certificate_newSubjectUniqueId: the return code, and on return the
\* two sizes and the two buffers, which hold key bytes up to the size (as
\* far as the buffer goes) and zeros after
ZT_Certificate_newSubjectUniqueId(eng) ==
    [rc |-> eng.rc,
     unique_id_size |-> eng.public_size,
     unique_id_private_size |-> eng.private_size,
     unique_id |->
         [i \in 1..CERTIFICATE_UNIQUE_ID_CREATE_BUF_SIZE |->
             IF i <= eng.public_size THEN 1 + (i % 2) ELSE 0],
     unique_id_private |->
         [i \in 1..CERTIFICATE_UNIQUE_ID_CREATE_BUF_SIZE |->
             IF i <= eng.private_size THEN 2 - (i % 2) ELSE 0]]

\* &buf[0..n as usize]: the first n bytes, a panic when n is past the end of
\* buf; a negative c_int cast to usize is past the end of any buffer
SliceTo(buf, n) ==
    IF n < 0 \/ n > Len(buf) THEN None ELSE Some(SubSeq(buf, 1, n))

\* a plausible slip: the engine's return code is not looked at
CertificateSubjectUniqueIdSecret_new_unchecked(t, eng) ==
    LET e == ZT_Certificate_newSubjectUniqueId(eng)
        public == SliceTo(e.unique_id, e.unique_id_size)
        private == SliceTo(e.unique_id_private, e.unique_id_private_size)
    IN  IF ~is_some(public) \/ ~is_some(private)
        THEN [panicked |-> TRUE, val |-> None]
        ELSE [panicked |-> FALSE,
              val |-> Some([public |-> unwrap(public),
                            private |-> unwrap(private), type_ |-> t])]

\* CertificateSubjectUniqueIdSecret::new
CertificateSubjectUniqueIdSecret_new(t, eng) ==
    LET e == ZT_Certificate_newSubjectUniqueId(eng)
        public == SliceTo(e.unique_id, e.unique_id_size)
        private == SliceTo(e.unique_id_private, e.unique_id_private_size)
    IN  IF e.rc # 0
        THEN [panicked |-> TRUE, val |-> None]
        ELSE IF ~is_some(public) \/ ~is_some(private)
             THEN [panicked |-> TRUE, val |-> None]
             ELSE [panicked |-> FALSE,
                   val |-> Some([public |-> unwrap(public),
                                 private |-> unwrap(private), type_ |-> t])]

\* what the engine may answer: failure or success, sizes inside the
\* buffers, past them, negative
UniqueIdSizes ==
    {0 - 1, 0, 1, 48, CERTIFICATE_UNIQUE_ID_CREATE_BUF_SIZE - 1}
    \cup (CERTIFICATE_UNIQUE_ID_CREATE_BUF_SIZE
             ..(CERTIFICATE_UNIQUE_ID_CREATE_BUF_SIZE + MaxOver))

UniqueIdAnswers ==
    {[rc |-> rc, public_size |-> a, private_size |-> b] :
        rc \in {0, 1}, a \in UniqueIdSizes, b \in UniqueIdSizes}

UniqueIdSecretNew ==
    \E eng \in UniqueIdAnswers :
        /\ last' = [op |-> "CertificateSubjectUniqueIdSecret_new",
                    arg |-> [t |-> "NistP384"], eng |-> eng,
                    r |-> CertificateSubjectUniqueIdSecret_new("NistP384", eng)]
        /\ UNCHANGED cert

SpecUniqueIdSecret == InitPure /\ [][UniqueIdSecretNew]_vars

----------------------------------------------------------------------------
(* A serial number parsed from text, and written as text and parsed back.  *)

\* text of n hex digits, pattern k, in lower case or in both cases
HexText(n, k, mixed) ==
    LET alphabet == IF mixed THEN HexLower \o HexUpper ELSE HexLower
    IN  [i \in 1..n |-> alphabet[1 + ((i * k + (i \div 3)) % Len(alphabet))]]

\* text of n characters with one at position p that is no hex digit
NonHexText(n, p) == [HexText(n, 1, FALSE) EXCEPT ![p] = "g"]

SerialTexts ==
    {HexText(n, 1, FALSE) : n \in 0..MaxHexLen}
    \cup {HexText(n, 2, TRUE) : n \in {2, 2 * SerialNoSize, MaxHexLen}}
    \cup {NonHexText(2 * SerialNoSize, p) : p \in {1, 2, 2 * SerialNoSize}}
    \cup {NonHexText(2, 1), NonHexText(2 * SerialNoSize + 2, 2 * SerialNoSize + 1)}

\* a 48-byte array, pattern k from offset j, bytes 0..255
SerialBytes(k, j) == [i \in 1..SerialNoSize |-> (i * k + j) % 256]

SerialArrays ==
    {SerialBytes(k, j) : k \in {1, 17}, j \in 0..MaxOffset}
    \cup {SerialBytes(0, 255), SerialBytes(1, 200)}

SerialNoFromString ==
    \E s \in SerialTexts :
        /\ last' = [op |-> "new_from_string", arg |-> [s |-> s],
                    eng |-> Void, r |-> CertificateSerialNo_new_from_string(s)]
        /\ UNCHANGED cert

SerialNoToString ==
    \E b \in SerialArrays :
        /\ last' = [op |-> "to_string", arg |-> [b |-> b], eng |-> Void,
                    r |-> [s |-> CertificateSerialNo_to_string(b),
                           back |-> CertificateSerialNo_new_from_string(
                                        CertificateSerialNo_to_string(b))]]
        /\ UNCHANGED cert

SpecSerialNoText ==
    InitPure /\ [][SerialNoFromString \/ SerialNoToString]_vars

----------------------------------------------------------------------------
(* A Subject built from the engine's decoded data, with any of its arrays  *)
(* null or of count 0, and identity entries without an identity.           *)

\* entries of a decoded identity array: with identity only, with identity
\* and locator, with neither
EngineIdentityEntry(k, with_locator) ==
    [identity |-> EnginePtr([key |-> k, priv |-> FALSE]),
     locator |-> IF with_locator THEN EnginePtr([endpoint |-> k]) ELSE NullPtr]

EmptyIdentityEntry == [identity |-> NullPtr, locator |-> NullPtr]

EngineIdentityArrays ==
    LET a == EngineIdentityEntry(1, FALSE)
        b == EngineIdentityEntry(2, TRUE)
        e == EmptyIdentityEntry
    IN  { << a, b >>, << e, a, b >>, << a, e, b >>, << a, b, e >>, << e >> }

\* an array field and its count field: both absent, a count without an
\* array, an array with count 0, an array with its count
EngineArrayFields(arr) ==
    << [at |-> NullPtr, count |-> 0],
       [at |-> NullPtr, count |-> Len(arr)],
       [at |-> EnginePtr(arr), count |-> 0],
       [at |-> EnginePtr(arr), count |-> Len(arr)] >>

EngineNetworkArray ==
    << CertificateNetwork_to_capi(
           [id |-> 7, controller |-> [address |-> 3, hash |-> SN(2)]]),
       CertificateNetwork_to_capi(
           [id |-> 5, controller |-> [address |-> 4, hash |-> SN(1)]]) >>

EngineSerialArray == << EnginePtr(SN(2)), EnginePtr(SN(1)) >>

EngineUrlArray ==
    << unwrap(CString_new(Str(3, 0))), unwrap(CString_new(Str(2, 1))) >>

DecodedSubject(ids, nets, sns, urls) ==
    [timestamp |-> 1,
     identities |-> ids.at, identityCount |-> ids.count,
     networks |-> nets.at, networkCount |-> nets.count,
     certificates |-> sns.at, certificateCount |-> sns.count,
     updateURLs |-> urls.at, updateURLCount |-> urls.count,
     name |-> EngineNameBuffers(MkName(Str(2, 0), Str(1, 0))),
     uniqueId |-> << >>, uniqueIdSize |-> 0,
     uniqueIdProofSignature |-> << >>, uniqueIdProofSignatureSize |-> 0]

DecodedSubjects ==
    {DecodedSubject(ids, nets, EngineArrayFields(EngineSerialArray)[j],
                    EngineArrayFields(EngineUrlArray)[j]) :
        ids \in {EngineArrayFields(a)[j] : a \in EngineIdentityArrays,
                                           j \in 1..4},
        nets \in {EngineArrayFields(EngineNetworkArray)[j] : j \in 1..4},
        j \in 1..4}

SubjectFromCapi ==
    \E cs \in DecodedSubjects :
        /\ last' = [op |-> "CertificateSubject_new_from_capi",
                    arg |-> [cs |-> cs], eng |-> Void,
                    r |-> CertificateSubject_new_from_capi(cs)]
        /\ UNCHANGED cert

SpecSubjectFromCapi == InitPure /\ [][SubjectFromCapi]_vars

----------------------------------------------------------------------------
(* Properties.                                                             *)

KnownCodes ==
    {ZT_CertificateError(CertificateErrorKinds[i]) :
        i \in 1..Len(CertificateErrorKinds)}

KindOfCode(code) ==
    CertificateErrorKinds[CHOOSE i \in 1..Len(CertificateErrorKinds) :
                              ZT_CertificateError(CertificateErrorKinds[i]) = code]

\* C1: sign with an identity that has no private key returns
\* ErrorBadParameter whatever the certificate holds, without calling the
\* engine's sign and without returning bytes.
C1_SignWithoutPrivateKey ==
    (last.op = "sign" /\ ~Identity_has_private(last.arg.id)) =>
        /\ ~last.r.ok
        /\ last.r.err = "ErrorBadParameter"
        /\ last.r.val = None
        /\ last.r.calls = << >>

C1_Witness ==
    /\ last.op = "sign"
    /\ ~Identity_has_private(last.arg.id)
    /\ ~last.r.ok
    /\ last.eng.rc = 0
    /\ Len(cert.crl) > 0

C4_UnverifiedDecodeTolerance ==
    (/\ last.op = "new_from_bytes"
     /\ WellFormed(last.arg.b)
     /\ ~last.arg.verify) =>
        (last.r.ok \/ last.r.err = "InvalidFormat")

C4_Witness ==
    /\ last.op = "new_from_bytes"
    /\ WellFormed(last.arg.b)
    /\ ~last.arg.verify
    /\ last.eng.verdict = ZT_CertificateError("OutOfValidTimeWindow")
    /\ last.r.ok

\* a Certificate's fields as data: an identity or locator is what its pointer
\* leads to
CertificateContent(c) ==
    [c EXCEPT
        !.issuer = @.capi.at,
        !.subject.identities =
            [k \in 1..Len(@) |->
                [identity |-> @[k].identity.capi.at,
                 locator |-> IF is_some(@[k].locator)
                             THEN Some(unwrap(@[k].locator).capi.at)
                             ELSE None]]]

\* C5: decoding the bytes to_bytes returned for a certificate with a
\* populated signature gives a Certificate equal to it field for field.
C5_RoundTrip ==
    (/\ last.op = "new_from_bytes"
     /\ last.arg.from = "to_bytes"
     /\ WellFormed(last.arg.b)
     /\ Len(cert.signature) > 0
     /\ last.r.ok) =>
        CertificateContent(unwrap(last.r.val)) = CertificateContent(cert)

\* C6: a Name field s marshalled into the 128-byte buffer gives the first
\* min(len(s), 126) bytes of s, then a zero byte at index min(len(s), 126);
\* an empty field writes index 0 only; nothing is written past index 127.
C6_NameFieldMarshalling ==
    last.op = "str_to_cert_cstr" =>
        LET s == last.arg.s
            m == Min(Len(s), CStrClamp)
        IN  /\ \A i \in 0..(m - 1) : last.r.cs[i] = s[i + 1]
            /\ last.r.cs[m] = 0
            /\ Len(s) = 0 => last.r.wrote = {0}
            /\ \A i \in last.r.wrote : i >= 0 /\ i <= CStrBufSize - 1

C6_Witness ==
    /\ last.op = "str_to_cert_cstr"
    /\ Len(last.arg.s) > CStrClamp
    /\ last.r.cs[CStrClamp - 1] = last.arg.s[CStrClamp]
    /\ last.r.cs[CStrClamp] = 0

\* C7: on success new_csr returns the encoded CSR: not empty, at most 16384
\* bytes, as long as the encoded size the engine reported, nothing after the
\* encoding.
C7_CsrIsEncodedForm ==
    (last.op = "new_csr" /\ last.r.ok) =>
        LET b == unwrap(last.r.val)
        IN  /\ b.len > 0
            /\ b.len <= BufSize
            /\ b.len = last.eng.size
            /\ b.len = b.enc

\* C8: to_bytes returns ErrorInternalNonFatal when the engine's encode
\* fails, and otherwise a byte string exactly as long as the encoded length
\* the engine reported: at most 16384 bytes, nothing after the encoding.
C8_ToBytesTrimmed ==
    last.op = "to_bytes" =>
        /\ last.eng.rc # 0 =>
              /\ ~last.r.ok
              /\ last.r.err = "ErrorInternalNonFatal"
              /\ last.r.val = None
        /\ last.eng.rc = 0 =>
              /\ last.r.ok
              /\ unwrap(last.r.val).len = last.eng.size
              /\ unwrap(last.r.val).len = unwrap(last.r.val).enc
              /\ unwrap(last.r.val).len <= BufSize

C8_Witness ==
    /\ last.op = "to_bytes"
    /\ last.r.ok
    /\ last.eng.size < BufSize
    /\ unwrap(last.r.val).len = last.eng.size

\* C9: new_csr, sign, to_bytes and verify leave the in-memory Certificate
\* and its Subject as they were, on success and on failure.
C9_OperationsLeaveSelfUnchanged ==
    [][last'.op \in {"new_csr", "sign", "to_bytes", "verify"}
          => cert' = cert]_vars

\* a successful sign has returned signed bytes and the certificate's own
\* signature is still empty
C9_Witness ==
    /\ last.op = "sign"
    /\ last.r.ok
    /\ Len(unwrap(last.r.val).image.signature) > 0
    /\ cert.signature = << >>

\* C10: a serial number made from a byte slice v has 48 bytes: the first
\* min(len(v), 48) bytes of v, then zeros; bytes of v past index 47 are
\* dropped.
C10_SerialNoFromSlice ==
    last.op = "CertificateSerialNo_from" =>
        /\ DOMAIN last.r = 1..SerialNoSize
        /\ \A i \in 1..SerialNoSize :
               last.r[i] = IF i <= Len(last.arg.v) THEN last.arg.v[i] ELSE 0

C10_Witness ==
    /\ last.op = "CertificateSerialNo_from"
    /\ Len(last.arg.v) > SerialNoSize
    /\ last.arg.v[SerialNoSize + 1] # 0
    /\ last.r[SerialNoSize] = last.arg.v[SerialNoSize]

\* text an even number of hex digits long
IsValidHex(s) ==
    /\ Len(s) % 2 = 0
    /\ \A i \in 1..Len(s) :
           \/ \E d \in 1..Len(HexLower) : s[i] = HexLower[d]
           \/ \E d \in 1..Len(HexUpper) : s[i] = HexUpper[d]

\* C11: new_from_string returns ErrorBadParameter exactly when the text is
\* not valid hex; valid hex of any length succeeds and gives the decoded
\* bytes cut to the first 48 or extended with zeros to 48.
C11_SerialNoFromHex ==
    last.op = "new_from_string" =>
        LET s == last.arg.s
        IN  /\ last.r.ok <=> IsValidHex(s)
            /\ ~last.r.ok => (last.r.err = "ErrorBadParameter"
                              /\ last.r.val = None)
            /\ last.r.ok =>
                  LET sn == unwrap(last.r.val)
                  IN  /\ DOMAIN sn = 1..SerialNoSize
                      /\ \A i \in 1..SerialNoSize :
                             sn[i] = IF 2 * i <= Len(s)
                                     THEN 16 * unwrap(HexVal(s[2 * i - 1]))
                                          + unwrap(HexVal(s[2 * i]))
                                     ELSE 0

\* valid hex that decodes to more than 48 bytes was accepted and cut
C11_Witness ==
    /\ last.op = "new_from_string"
    /\ Len(last.arg.s) > 2 * SerialNoSize
    /\ last.r.ok
    /\ unwrap(last.r.val)[SerialNoSize] # 0

\* C12: a 48-byte serial number written as text is 96 lowercase hex digits,
\* and parsing that text succeeds and gives the same 48 bytes.
C12_SerialNoHexRoundTrip ==
    last.op = "to_string" =>
        /\ Len(last.r.s) = 2 * SerialNoSize
        /\ \A i \in 1..Len(last.r.s) :
               \E d \in 1..Len(HexLower) : last.r.s[i] = HexLower[d]
        /\ last.r.back.ok
        /\ unwrap(last.r.back.val) = last.arg.b

\* bytes above 9F, whose digits are both letters, went through
C12_Witness ==
    /\ last.op = "to_string"
    /\ last.arg.b[1] = 255
    /\ last.r.s[1] = "f"
    /\ last.r.back.ok
    /\ unwrap(last.r.back.val)[1] = 255

HasIdentity(e) == ~is_null(e.identity)

\* what an array field and its count field hold: nothing when the array is
\* null or the count is 0
PresentEntries(at, count) ==
    IF is_null(at) \/ count = 0 THEN << >> ELSE SubSeq(at.at, 1, count)

\* C13: a Subject built from decoded engine data always comes out a Subject:
\* a collection whose array is null or whose count is 0 is empty, the
\* entries present are kept in their order, an identity entry without an
\* identity is left out.
C13_SubjectFromDecodedData ==
    last.op = "CertificateSubject_new_from_capi" =>
        LET cs == last.arg.cs
            ids == SelectSeq(PresentEntries(cs.identities, cs.identityCount),
                             HasIdentity)
            nets == PresentEntries(cs.networks, cs.networkCount)
            sns == PresentEntries(cs.certificates, cs.certificateCount)
            urls == PresentEntries(cs.updateURLs, cs.updateURLCount)
        IN  /\ DOMAIN last.r =
                   {"timestamp", "identities", "networks", "certificates",
                    "updateURLs", "name", "uniqueId", "uniqueIdProofSignature"}
            /\ Len(last.r.identities) = Len(ids)
            /\ \A k \in 1..Len(ids) :
                   /\ last.r.identities[k].identity.capi.at = ids[k].identity.at
                   /\ is_some(last.r.identities[k].locator)
                          <=> ~is_null(ids[k].locator)
                   /\ is_some(last.r.identities[k].locator) =>
                          unwrap(last.r.identities[k].locator).capi.at
                              = ids[k].locator.at
            /\ last.r.networks = nets
            /\ last.r.certificates = [k \in 1..Len(sns) |-> sns[k].at]
            /\ Len(last.r.updateURLs) = Len(urls)
            /\ \A k \in 1..Len(urls) :
                   urls[k] = unwrap(CString_new(last.r.updateURLs[k]))

\* an entry without an identity stood before two entries with one, next to
\* an absent network array and a network count without an array
C13_Witness ==
    /\ last.op = "CertificateSubject_new_from_capi"
    /\ last.arg.cs.identityCount = 3
    /\ ~is_null(last.arg.cs.identities)
    /\ is_null(last.arg.cs.identities.at[1].identity)
    /\ Len(last.r.identities) = 2
    /\ is_null(last.arg.cs.networks)
    /\ last.arg.cs.networkCount > 0
    /\ last.r.networks = << >>
    /\ Len(last.r.certificates) = 2

\* C14: CertificateSubjectUniqueIdSecret::new either panics or returns a
\* secret whose public and private halves are as long as the engine
\* reported, each at most 128 bytes; after an engine failure or a reported
\* size above 128 it returns no secret.
C14_UniqueIdSecretNew ==
    last.op = "CertificateSubjectUniqueIdSecret_new" =>
        /\ last.r.panicked => last.r.val = None
        /\ ~last.r.panicked =>
              /\ is_some(last.r.val)
              /\ Len(unwrap(last.r.val).public) = last.eng.public_size
              /\ Len(unwrap(last.r.val).private) = last.eng.private_size
              /\ Len(unwrap(last.r.val).public)
                     <= CERTIFICATE_UNIQUE_ID_CREATE_BUF_SIZE
              /\ Len(unwrap(last.r.val).private)
                     <= CERTIFICATE_UNIQUE_ID_CREATE_BUF_SIZE
        /\ (\/ last.eng.rc # 0
            \/ last.eng.public_size > CERTIFICATE_UNIQUE_ID_CREATE_BUF_SIZE
            \/ last.eng.private_size > CERTIFICATE_UNIQUE_ID_CREATE_BUF_SIZE)
               => last.r.panicked

\* the engine reported success and a private size one past the buffer
C14_Witness ==
    /\ last.op = "CertificateSubjectUniqueIdSecret_new"
    /\ last.eng.rc = 0
    /\ last.eng.public_size = 48
    /\ last.eng.private_size = CERTIFICATE_UNIQUE_ID_CREATE_BUF_SIZE + 1
    /\ last.r.panicked

\* a Rust identity or locator that owns the engine object it points to
OwnsItsObject(v) ==
    /\ ~is_null(v.capi)
    /\ v.capi.owner = "own"
    /\ v.requires_delete

\* C15: after a successful decode the engine's certificate object has been
\* released once, after the copy, and the Certificate returned points
\* nowhere into it: its issuer, and every identity and locator of its
\* subject, is a copy the Certificate owns.
C15_DecodedCertificateOwnsItsFields ==
    (last.op = "new_from_bytes" /\ last.r.ok) =>
        LET c == unwrap(last.r.val)
        IN  /\ last.r.calls
                   = << "ZT_Certificate_decode", "ZT_Certificate_delete" >>
            /\ OwnsItsObject(c.issuer)
            /\ \A k \in 1..Len(c.subject.identities) :
                   /\ OwnsItsObject(c.subject.identities[k].identity)
                   /\ is_some(c.subject.identities[k].locator) =>
                          OwnsItsObject(unwrap(c.subject.identities[k].locator))

====
